---- MODULE Spec2Model ----
(***************************************************************************)
(* The per-user isolated data store of the personal-guidance backend:      *)
(* PrivateDataStore (private_user_data/user_<id>/...), PersonalBrainService *)
(* (user_brains/user_<id>_brain.json) and DataPrivacyService, which        *)
(* composes the two.                                                       *)
(*                                                                         *)
(* A directory is modelled by value: a function from file names to file    *)
(* contents.  A brain file's content is the sequence of chunks the         *)
(* operating system has been handed (json.dump reaches the file in one or  *)
(* more writes); json.load succeeds exactly on a complete serialisation.   *)
(* An open file descriptor is tracked by the name its file currently has   *)
(* ("orphan" once the file has no name), which is exact here because no    *)
(* file of a tenant directory ever has two names.                          *)
(***************************************************************************)
EXTENDS Integers, Sequences, FiniteSets, TLC

VARIABLES
    now,      \* datetime.now(), as a counter
    store,    \* private_user_data/: user id -> tenant directory
    brains,   \* user_brains/: user id -> content of user_<id>_brain.json
    procs,    \* request-handling workers in flight: their position and locals
    last,     \* the operation that completed last, and what it returned
    budget    \* calls the scenario still allows (SpecIsolation only)

vars == <<now, store, brains, procs, last, budget>>

(* ------------------------------ bounds -------------------------------- *)

Users == {1, 2}

\* OS-level writes one json.dump takes
NChunks == 2

\* concurrent callers of one operation
NumWorkers == 2

\* rows one table of a user's database holds, and events one document
\* field holds, before the model stops adding to it
MaxRows == 1

\* calls in one scenario of SpecIsolation
MaxCalls == 2

\* last value of the clock
MaxTime == 1

\* calls in one scenario of SpecConversation
MaxExchanges == 22

\* calls in one scenario of SpecHabit
MaxHabits == 8

\* calls in one scenario of SpecHelpers
MaxHelpers == 3

Workers == 1..NumWorkers

(* ----------------------------- documents ------------------------------ *)

\* PrivateDataStore._create_new_brain's literal (personal_info,
\* personal_metrics and ai_memory are nested literals that no operation of
\* the two stores reads or writes; they are left out)
NewPrivateBrain(u, t) ==
    [ user_id              |-> u,
      created_at           |-> t,
      last_updated         |-> t,
      version              |-> "2.0",
      privacy_level        |-> "private",
      learning_history     |-> <<>>,
      personality_insights |-> <<>>,
      behavior_patterns    |-> <<>>,
      preferences          |-> <<>>,
      goals_progress       |-> <<>>,
      habit_memory         |-> <<>>,
      conversation_context |-> <<>>,
      achievements         |-> <<>>,
      challenges           |-> <<>>,
      growth_areas         |-> <<>> ]

\* PersonalBrainService.get_user_brain's literal
NewServiceBrain(u, t) ==
    [ user_id              |-> u,
      created_at           |-> t,
      last_updated         |-> t,
      learning_history     |-> <<>>,
      personality_insights |-> <<>>,
      behavior_patterns    |-> <<>>,
      preferences          |-> <<>>,
      goals_progress       |-> <<>>,
      habit_memory         |-> <<>>,
      conversation_context |-> <<>>,
      achievements         |-> <<>>,
      challenges           |-> <<>>,
      growth_areas         |-> <<>> ]

(* --------------------------- serialisation ---------------------------- *)

\* what a load hands back when the content is no JSON document
ParseError == [error |-> "JSONDecodeError"]

\* a position of a file no write has reached (a writer wrote past it)
Hole == [kind |-> "hole", part |-> 0, doc |-> ParseError]

\* bytes that are no JSON at all
Junk == [kind |-> "junk", part |-> 0, doc |-> ParseError]

\* json.dump(brain_data, f): the i-th write of the serialisation of d
Chunk(d, i) == [kind |-> "json", part |-> i, doc |-> d]

JsonDump(d) == [i \in 1..NChunks |-> Chunk(d, i)]

\* json.load(f): the document, when the content is one complete
\* serialisation; anything shorter, longer or pieced together from two
\* serialisations does not parse
JsonLoad(c) ==
    IF /\ Len(c) = NChunks
       /\ \A i \in 1..NChunks : c[i] = Chunk(c[1].doc, i)
    THEN c[1].doc
    ELSE ParseError

(* ----------------------------- file system ---------------------------- *)

BrainName == "brain.json"
TmpName   == "brain.tmp"
DbName    == "user_data.db"

NoDir == [exists |-> FALSE, mode |-> "000", files |-> <<>>]

Exists(files, name) == name \in DOMAIN files

\* open(path, 'w'): creates the file, or truncates the one that is there
OpenW(files, name) == (name :> <<>>) @@ files

\* one write(2) of `chunk` at offset `off` through a descriptor whose file
\* is named `name`; the positions skipped over read as holes
WriteAt(files, name, off, chunk) ==
    LET old == files[name]
        new == [i \in 1..(IF off + 1 > Len(old) THEN off + 1 ELSE Len(old)) |->
                   IF i = off + 1 THEN chunk
                   ELSE IF i <= Len(old) THEN old[i] ELSE Hole]
    IN  (name :> new) @@ files

Unlink(files, name) == [n \in DOMAIN files \ {name} |-> files[n]]

\* Path.replace / Path.rename: src takes dst's place
Rename(files, src, dst) == (dst :> files[src]) @@ Unlink(files, src)

\* where an open descriptor's file is after src was renamed over dst
FdAfterRename(fd, src, dst) ==
    IF fd = src THEN dst ELSE IF fd = dst THEN "orphan" ELSE fd

FdAfterUnlink(fd, name) == IF fd = name THEN "orphan" ELSE fd

\* a derivation that gives every user the same directory
UserDirKeyShared(u) == CHOOSE v \in Users : \A x \in Users : v <= x

\* _get_user_data_dir: base_dir / f"user_{user_id}", one directory per id
UserDirKey(u) == u

GetUserDataDir(st, u) ==
    IF st[UserDirKey(u)].exists THEN st
    ELSE [st EXCEPT ![UserDirKey(u)] = [exists |-> TRUE, mode |-> "700", files |-> <<>>]]

FilesOf(st, u) == st[UserDirKey(u)].files

WithFiles(st, u, files) == [st EXCEPT ![UserDirKey(u)].files = files]

(* ------------- PrivateDataStore.save_user_brain, step by step --------- *)

\* a stamp that also renews created_at
StampRenew(u, doc, t) == [doc EXCEPT !.user_id = u, !.last_updated = t, !.created_at = t]

\* a stamp that writes an id no user has
StampForeign(u, doc, t) == [doc EXCEPT !.user_id = 0, !.last_updated = t]

\* lines 159-160: the caller's dict, stamped
Stamp(u, doc, t) == [doc EXCEPT !.user_id = u, !.last_updated = t]

\* the user whose document the concurrent callers address
TheUser == CHOOSE u \in Users : \A v \in Users : u <= v

\* the document worker w submits, carrying user id `uid`
SubmittedDoc(w, uid) ==
    [NewPrivateBrain(uid, 0) EXCEPT !.achievements = <<[achievement |-> w, date |-> 0]>>]

EarlierDoc == NewPrivateBrain(TheUser, 0)

IdleProc == [pc |-> "idle", op |-> "none", doc |-> ParseError, fd |-> "none", off |-> 0,
             at |-> "none", phase |-> "none"]

\* lines 156-165
SaveBegin(w) ==
    /\ procs[w].pc = "idle"
    /\ \E uid \in Users :
          procs' = [procs EXCEPT ![w] =
                      [IdleProc EXCEPT !.pc = "open", !.op = "save",
                                       !.doc = Stamp(TheUser, SubmittedDoc(w, uid), now)]]
    /\ store' = GetUserDataDir(store, TheUser)
    /\ UNCHANGED <<now, brains, last, budget>>

\* line 167: open(temp_path, 'w')
SaveOpen(w) ==
    /\ procs[w].pc = "open"
    /\ store' = WithFiles(store, TheUser, OpenW(FilesOf(store, TheUser), TmpName))
    /\ procs' = [procs EXCEPT ![w].pc = "write", ![w].fd = TmpName, ![w].off = 0]
    /\ UNCHANGED <<now, brains, last, budget>>

\* line 168: one write of json.dump; the last one is followed by the close
SaveWrite(w) ==
    /\ procs[w].pc = "write"
    /\ LET p == procs[w]
           files == FilesOf(store, TheUser)
       IN  /\ store' = IF p.fd = "orphan" THEN store
                       ELSE WithFiles(store, TheUser,
                                      WriteAt(files, p.fd, p.off, Chunk(p.doc, p.off + 1)))
           /\ procs' = [procs EXCEPT ![w].off = p.off + 1,
                                     ![w].pc = IF p.off + 1 = NChunks THEN "replace" ELSE "write",
                                     ![w].fd = IF p.off + 1 = NChunks THEN "none" ELSE p.fd]
    /\ UNCHANGED <<now, brains, last, budget>>

\* line 171: temp_path.replace(brain_path); with no brain.tmp it raises
\* FileNotFoundError and the handler of lines 176-180 finds nothing to unlink
SaveReplace(w) ==
    /\ procs[w].pc = "replace"
    /\ LET files == FilesOf(store, TheUser)
       IN  IF Exists(files, TmpName)
           THEN /\ store' = WithFiles(store, TheUser, Rename(files, TmpName, BrainName))
                /\ procs' = [v \in Workers |->
                               IF v = w THEN [procs[w] EXCEPT !.pc = "chmod"]
                               ELSE [procs[v] EXCEPT !.fd = FdAfterRename(@, TmpName, BrainName)]]
           ELSE /\ store' = store
                /\ procs' = [procs EXCEPT ![w].pc = "failed", ![w].at = "replace"]
    /\ UNCHANGED <<now, brains, last, budget>>

\* line 174: os.chmod(brain_path, 0o600)
SaveChmod(w) ==
    /\ procs[w].pc = "chmod"
    /\ procs' = [procs EXCEPT ![w].pc = "done"]
    /\ UNCHANGED <<now, store, brains, last, budget>>

\* lines 176-180: the step at hand raises (the medium is full, the rename or
\* the chmod is refused); the handler unlinks brain.tmp if there is one
SaveCleanup(files) == IF Exists(files, TmpName) THEN Unlink(files, TmpName) ELSE files

SaveRaise(w) ==
    /\ procs[w].pc \in {"open", "write", "replace", "chmod"}
    /\ store' = WithFiles(store, TheUser, SaveCleanup(FilesOf(store, TheUser)))
    /\ procs' = [v \in Workers |->
                   IF v = w THEN [procs[w] EXCEPT !.pc = "failed", !.at = procs[w].pc, !.fd = "none"]
                   ELSE [procs[v] EXCEPT !.fd = FdAfterUnlink(@, TmpName)]]
    /\ UNCHANGED <<now, brains, last, budget>>

NoOp == [op |-> "none", user |-> 0, ok |-> TRUE, ret |-> FALSE, place |-> "any"]

InitSave ==
    /\ now = 0
    /\ store = [u \in Users |->
                  IF u = TheUser
                  THEN [exists |-> TRUE, mode |-> "700",
                        files |-> (BrainName :> JsonDump(EarlierDoc))]
                  ELSE NoDir]
    /\ brains = <<>>
    /\ procs = [w \in Workers |-> IdleProc]
    /\ last = NoOp
    /\ budget = 0

NextSave ==
    \E w \in Workers :
        \/ SaveBegin(w)
        \/ SaveOpen(w)
        \/ SaveWrite(w)
        \/ SaveReplace(w)
        \/ SaveChmod(w)
        \/ SaveRaise(w)

\* concurrent save_user_brain calls for one user
SpecSave == InitSave /\ [][NextSave]_vars

(* ------------------ PersonalBrainService: the mutations -------------- *)

\* dict.get(key) of a key that is absent: None
PyNone == -1

\* conversation_context keeps the last 20 exchanges
ContextLimit == 20

\* habit_memory is a dict, which keeps insertion order: a sequence of
\* [date, snap] entries with distinct dates
HasDate(hm, d) == \E i \in 1..Len(hm) : hm[i].date = d

\* brain["habit_memory"][habit_key] = {...}: an existing key keeps its place
SetHabit(hm, d, snap) ==
    IF HasDate(hm, d)
    THEN [i \in 1..Len(hm) |-> IF hm[i].date = d THEN [date |-> d, snap |-> snap] ELSE hm[i]]
    ELSE Append(hm, [date |-> d, snap |-> snap])

\* lines 74-79: the snapshot taken from habit_data
Snapshot(h) ==
    [ sleep_hours        |-> h.sleep_hours,
      exercise_minutes   |-> h.exercise_minutes,
      meditation_minutes |-> h.meditation_minutes,
      reading_minutes    |-> h.reading_minutes ]

RECURSIVE SumSleep(_)
\* line 160: the sum over the snapshots whose sleep_hours is truthy
SumSleep(hm) ==
    IF hm = <<>> THEN 0
    ELSE (IF Head(hm).snap.sleep_hours \in {PyNone, 0} THEN 0 ELSE Head(hm).snap.sleep_hours)
         + SumSleep(Tail(hm))

RECURSIVE SumExercise(_)
\* line 161: the sum over every snapshot
SumExercise(hm) ==
    IF hm = <<>> THEN 0 ELSE Head(hm).snap.exercise_minutes + SumExercise(Tail(hm))

\* a trend taken over everything stored
RecentAll(hm) == hm

\* list(habits.values())[-7:]
Recent(hm) == IF Len(hm) <= 7 THEN hm ELSE SubSeq(hm, Len(hm) - 6, Len(hm))

\* lines 161 and 171 raise TypeError on a None: int + None, None > int
AnalyzeRaises(hm) ==
    /\ Len(hm) >= 3
    /\ \/ \E i \in 1..Len(hm) : hm[i].snap.exercise_minutes = PyNone
       \/ Recent(hm)[1].snap.sleep_hours = PyNone
       \/ Recent(hm)[Len(Recent(hm))].snap.sleep_hours = PyNone

Put(f, k, v) == (k :> v) @@ f

\* _analyze_habit_patterns (lines 152-172); an average is kept as the pair
\* <<total, count>> it is the quotient of
AnalyzeHabitPatterns(brain) ==
    LET hm == brain.habit_memory
        r  == Recent(hm)
        trend == IF r[Len(r)].snap.sleep_hours > r[1].snap.sleep_hours
                 THEN "improving" ELSE "declining"
    IN  IF Len(hm) < 3 THEN brain
        ELSE [brain EXCEPT !.behavior_patterns =
                 Put(Put(Put(@, "average_sleep", <<SumSleep(hm), Len(hm)>>),
                         "average_exercise", <<SumExercise(hm), Len(hm)>>),
                     "sleep_trend", trend)]

\* update_brain_with_habit, lines 65-82: the document as it is handed to
\* _save_brain
HabitMutation(brain, h, t) ==
    AnalyzeHabitPatterns(
        [brain EXCEPT
            !.learning_history = Append(@, [type |-> "habit", timestamp |-> t, data |-> h]),
            !.habit_memory     = SetHabit(@, h.date, Snapshot(h))])

HabitRaises(brain, h) == AnalyzeRaises(SetHabit(brain.habit_memory, h.date, Snapshot(h)))

\* a context that drops its oldest entry one call too late
ConversationMutationLate(brain, msg, reply, t) ==
    LET ctx == brain.conversation_context
        kept == IF Len(ctx) > ContextLimit THEN Tail(ctx) ELSE ctx
    IN  [brain EXCEPT !.conversation_context =
            Append(kept, [timestamp |-> t, user |-> msg, ai |-> reply])]

\* update_brain_with_conversation, lines 139-147
ConversationMutation(brain, msg, reply, t) ==
    LET ctx == brain.conversation_context
        kept == IF Len(ctx) >= ContextLimit THEN Tail(ctx) ELSE ctx
    IN  [brain EXCEPT !.conversation_context =
            Append(kept, [timestamp |-> t, user |-> msg, ai |-> reply])]

\* _save_brain, line 56
Touch(brain, t) == [brain EXCEPT !.last_updated = t]

\* _get_brain_path: the name of the user's file inside user_brains/
BrainPath(u) == u

(* ------------ PersonalBrainService under concurrent requests ---------- *)

\* what worker w's request carries
HabitInput(w) ==
    [ date |-> w, habit_name |-> PyNone, sleep_hours |-> 6 + w, exercise_minutes |-> 10 * w,
      meditation_minutes |-> PyNone, reading_minutes |-> PyNone ]

Mutated(op, brain, w) ==
    IF op = "habit" THEN Touch(HabitMutation(brain, HabitInput(w), now), now)
    ELSE Touch(ConversationMutation(brain, w, w, now), now)

\* get_user_brain, lines 28-32 and 35-49, at the head of update_brain_with_habit
\* (line 63), update_brain_with_conversation (line 137) or a bare read; the
\* mutation of the loaded dict is local to the worker and taken with it
BrainStart(w) ==
    /\ procs[w].pc = "idle"
    /\ \E op \in {"habit", "conversation", "read"} :
         LET path == BrainPath(TheUser)
             got  == JsonLoad(brains[path])
         IN  procs' = [procs EXCEPT ![w] =
               IF ~Exists(brains, path)
               THEN [IdleProc EXCEPT !.pc = "open", !.op = op, !.phase = "create",
                                     !.doc = Touch(NewServiceBrain(TheUser, now), now)]
               ELSE IF got = ParseError
               THEN [IdleProc EXCEPT !.pc = "failed", !.op = op, !.at = "load"]
               ELSE IF op = "read"
               THEN [IdleProc EXCEPT !.pc = "done", !.op = op, !.doc = got]
               ELSE [IdleProc EXCEPT !.pc = "open", !.op = op, !.phase = "update",
                                     !.doc = Mutated(op, got, w)]]
    /\ UNCHANGED <<now, store, brains, last, budget>>

\* _save_brain, line 58: open(brain_path, 'w')
BrainOpen(w) ==
    /\ procs[w].pc = "open"
    /\ brains' = OpenW(brains, BrainPath(TheUser))
    /\ procs' = [procs EXCEPT ![w].pc = "write", ![w].off = 0]
    /\ UNCHANGED <<now, store, last, budget>>

\* _save_brain, line 59: one write of json.dump, the last one with the
\* close; get_user_brain then returns, and a mutation helper goes on to its
\* own save
BrainWrite(w) ==
    /\ procs[w].pc = "write"
    /\ LET p == procs[w]
           finished == p.off + 1 = NChunks
       IN  /\ brains' = WriteAt(brains, BrainPath(TheUser), p.off, Chunk(p.doc, p.off + 1))
           /\ procs' = [procs EXCEPT ![w] =
                 IF ~finished THEN [p EXCEPT !.off = p.off + 1]
                 ELSE IF p.phase = "create" /\ p.op # "read"
                 THEN [p EXCEPT !.pc = "open", !.phase = "update", !.off = 0,
                                !.doc = Mutated(p.op, p.doc, w)]
                 ELSE [p EXCEPT !.pc = "done", !.off = p.off + 1]]
    /\ UNCHANGED <<now, store, last, budget>>

InitBrain ==
    /\ now = 0
    /\ store = [u \in Users |-> NoDir]
    /\ brains = <<>>
    /\ procs = [w \in Workers |-> IdleProc]
    /\ last = NoOp
    /\ budget = 0

NextBrain ==
    \E w \in Workers :
        \/ BrainStart(w)
        \/ BrainOpen(w)
        \/ BrainWrite(w)

\* concurrent requests to PersonalBrainService for one user
SpecBrain == InitBrain /\ [][NextBrain]_vars

(* ---------------- the operations, run by one caller at a time --------- *)

\* the steps at which save_user_brain can be refused by the medium
FailPoints == {"none", "open", "write", "replace", "chmod"}

RECURSIVE WriteChunks(_, _, _, _)
\* the first k writes of json.dump(d, f) into the file just opened
WriteChunks(files, name, d, k) ==
    IF k = 0 THEN files
    ELSE WriteAt(WriteChunks(files, name, d, k - 1), name, k - 1, Chunk(d, k))

\* save_user_brain (lines 156-180) from its call to its return or raise;
\* a refused write is the last one of json.dump
SaveUserBrain(st, u, doc, t, failAt) ==
    LET d       == Stamp(u, doc, t)
        st1     == GetUserDataDir(st, u)
        f0      == FilesOf(st1, u)
        opened  == OpenW(f0, TmpName)
        part    == WriteChunks(opened, TmpName, d, NChunks - 1)
        written == WriteChunks(opened, TmpName, d, NChunks)
        placed  == Rename(written, TmpName, BrainName)
    IN  CASE failAt = "open"    -> [store |-> WithFiles(st1, u, SaveCleanup(f0)), ok |-> FALSE]
          [] failAt = "write"   -> [store |-> WithFiles(st1, u, SaveCleanup(part)), ok |-> FALSE]
          [] failAt = "replace" -> [store |-> WithFiles(st1, u, SaveCleanup(written)), ok |-> FALSE]
          [] failAt = "chmod"   -> [store |-> WithFiles(st1, u, SaveCleanup(placed)), ok |-> FALSE]
          [] OTHER              -> [store |-> WithFiles(st1, u, placed), ok |-> TRUE]

\* _create_new_brain (lines 182-245)
CreateNewBrain(st, u, t, failAt) ==
    LET s == SaveUserBrain(st, u, NewPrivateBrain(u, t), t, failAt)
    IN  [store |-> s.store, ok |-> s.ok, ret |-> Stamp(u, NewPrivateBrain(u, t), t)]

\* the name line 250-252 gives the copy of a corrupted brain.json
BackupName(t) == "brain_corrupted_" \o ToString(t) \o ".json"

BackupNames == {BackupName(t) : t \in 0..MaxTime}

\* _backup_corrupted_file (lines 247-257): a refused rename is printed and
\* swallowed
BackupCorruptedFile(files, t, renameOk) ==
    IF Exists(files, BrainName) /\ renameOk
    THEN Rename(files, BrainName, BackupName(t))
    ELSE files

\* a check that accepts every document that parses
ValidAny(content, u) == JsonLoad(content) # ParseError

\* what lines 141-147 accept: a document that parses and carries the
\* requested user id
ValidFor(content, u) == JsonLoad(content) # ParseError /\ JsonLoad(content).user_id = u

\* a load that starts every user afresh
GetUserBrainReset(st, u, t, renameOk, failAt) ==
    CreateNewBrain(GetUserDataDir(st, u), u, t, failAt)

\* PrivateDataStore.get_user_brain (lines 136-154)
GetUserBrain(st, u, t, renameOk, failAt) ==
    LET st1   == GetUserDataDir(st, u)
        files == FilesOf(st1, u)
    IN  IF Exists(files, BrainName)
        THEN IF ValidFor(files[BrainName], u)
             THEN [store |-> st1, ok |-> TRUE, ret |-> JsonLoad(files[BrainName])]
             ELSE CreateNewBrain(WithFiles(st1, u, BackupCorruptedFile(files, t, renameOk)),
                                 u, t, failAt)
        ELSE CreateNewBrain(st1, u, t, failAt)

\* the tables of _init_user_db_schema the store's operations use
EmptyDb == [daily_logs |-> <<>>, habit_tracking |-> <<>>]

\* get_user_db_connection (lines 53-64): sqlite3.connect creates the file
GetUserDbConnection(st, u) ==
    LET st1 == GetUserDataDir(st, u)
    IN  IF Exists(FilesOf(st1, u), DbName) THEN st1
        ELSE WithFiles(st1, u, (DbName :> EmptyDb) @@ FilesOf(st1, u))

\* add_user_daily_log (lines 301-315)
AddUserDailyLog(st, u, log) ==
    LET st1 == GetUserDbConnection(st, u)
        db  == FilesOf(st1, u)[DbName]
    IN  [store |-> WithFiles(st1, u,
                     (DbName :> [db EXCEPT !.daily_logs = Append(@, log)]) @@ FilesOf(st1, u)),
         ok |-> TRUE, ret |-> TRUE]

\* add_user_habit_log (lines 317-330): habit_data['habit_name'] raises
\* KeyError, after the connection has been opened, when the key is missing
AddUserHabitLog(st, u, h) ==
    LET st1 == GetUserDbConnection(st, u)
        db  == FilesOf(st1, u)[DbName]
    IN  IF h.habit_name = PyNone
        THEN [store |-> st1, ok |-> FALSE, ret |-> FALSE]
        ELSE [store |-> WithFiles(st1, u,
                          (DbName :> [db EXCEPT !.habit_tracking =
                                         Append(@, [habit_name |-> h.habit_name,
                                                    date |-> h.date])])
                          @@ FilesOf(st1, u)),
              ok |-> TRUE, ret |-> TRUE]

\* get_user_analytics_data (lines 259-299), the rows its queries read
GetUserAnalyticsData(st, u) ==
    LET st1 == GetUserDbConnection(st, u)
        db  == FilesOf(st1, u)[DbName]
    IN  [store |-> st1, ok |-> TRUE,
         ret |-> [user_id |-> u, daily_trends |-> db.daily_logs,
                  habit_statistics |-> db.habit_tracking]]

\* verify_data_isolation (lines 332-358)
VerifyDataIsolation(st, u, t, renameOk, failAt) ==
    LET st1    == GetUserDataDir(st, u)
        files  == FilesOf(st1, u)
        report == [ user_id               |-> u,
                    directory_exists      |-> st1[UserDirKey(u)].exists,
                    directory_permissions |-> st1[UserDirKey(u)].mode,
                    brain_exists          |-> Exists(files, BrainName),
                    database_exists       |-> Exists(files, DbName),
                    brain_user_id_match   |-> "missing",
                    brain_verification_error |-> FALSE ]
        got    == GetUserBrain(st1, u, t, renameOk, failAt)
    IN  IF ~Exists(files, BrainName)
        THEN [store |-> st1, ok |-> TRUE, ret |-> report]
        ELSE IF got.ok
        THEN [store |-> got.store, ok |-> TRUE,
              ret |-> [report EXCEPT !.brain_user_id_match =
                          IF got.ret.user_id = u THEN "True" ELSE "False"]]
        ELSE [store |-> got.store, ok |-> TRUE,
              ret |-> [report EXCEPT !.brain_verification_error = TRUE]]

\* how shutil.rmtree can end: everything removed, refused before anything
\* was removed, or refused after some entries were removed
RmOutcomes == {"removed", "refused", "partway"}

\* shutil.rmtree stopped by an error after it removed brain.json
RemovedPartway(files) == Unlink(files, BrainName)

\* cleanup_user_data (lines 360-372); an error of rmtree is caught, printed
\* and answered with False
CleanupUserData(st, u, rm) ==
    LET st1 == GetUserDataDir(st, u)
    IN  IF ~st1[UserDirKey(u)].exists THEN [store |-> st1, ok |-> TRUE, ret |-> FALSE]
        ELSE IF rm = "removed"
        THEN [store |-> [st1 EXCEPT ![UserDirKey(u)] = NoDir], ok |-> TRUE, ret |-> TRUE]
        ELSE IF rm = "partway"
        THEN [store |-> WithFiles(st1, u, RemovedPartway(FilesOf(st1, u))),
              ok |-> TRUE, ret |-> FALSE]
        ELSE [store |-> st1, ok |-> TRUE, ret |-> FALSE]

\* PersonalBrainService._save_brain (lines 53-59)
ServiceSaveBrain(br, u, doc, t) == (BrainPath(u) :> JsonDump(Touch(doc, t))) @@ br

\* PersonalBrainService.get_user_brain (lines 26-51); json.load's error is
\* not caught
ServiceGetUserBrain(br, u, t) ==
    IF Exists(br, BrainPath(u))
    THEN [brains |-> br, ok |-> JsonLoad(br[BrainPath(u)]) # ParseError,
          ret |-> JsonLoad(br[BrainPath(u)])]
    ELSE [brains |-> ServiceSaveBrain(br, u, NewServiceBrain(u, t), t), ok |-> TRUE,
          ret |-> Touch(NewServiceBrain(u, t), t)]

\* update_brain_with_habit (lines 61-85)
UpdateBrainWithHabit(br, u, h, t) ==
    LET got == ServiceGetUserBrain(br, u, t)
    IN  IF ~got.ok \/ HabitRaises(got.ret, h)
        THEN [brains |-> got.brains, ok |-> FALSE, ret |-> ParseError]
        ELSE [brains |-> ServiceSaveBrain(got.brains, u, HabitMutation(got.ret, h, t), t),
              ok |-> TRUE, ret |-> Touch(HabitMutation(got.ret, h, t), t)]

\* update_brain_with_conversation (lines 135-150)
UpdateBrainWithConversation(br, u, msg, reply, t) ==
    LET got == ServiceGetUserBrain(br, u, t)
    IN  IF ~got.ok
        THEN [brains |-> got.brains, ok |-> FALSE, ret |-> ParseError]
        ELSE [brains |-> ServiceSaveBrain(got.brains, u,
                                          ConversationMutation(got.ret, msg, reply, t), t),
              ok |-> TRUE, ret |-> Touch(ConversationMutation(got.ret, msg, reply, t), t)]

\* a count that takes every check for a passing one
AsIntOne(b) == 1

\* sum([...]), lines 159-164: True counts 1 and False 0
AsInt(b) == IF b THEN 1 ELSE 0

\* verify_user_data_isolation, lines 150-185: the report made from the
\* store's report `rep` and the service's load `got`; the score
\* f"{isolation_score}/4" is kept as the pair <<isolation_score, 4>>
IsolationReport(rep, got, u) ==
    LET brain_user_match      == got.ret.user_id = u
        has_private_directory == rep.directory_exists
        has_private_brain     == rep.brain_exists
        correct_permissions   == rep.directory_permissions = "700"
        isolation_score       == AsInt(brain_user_match) + AsInt(has_private_directory)
                                 + AsInt(has_private_brain) + AsInt(correct_permissions)
    IN  IF ~got.ok
        THEN [user_id |-> u, isolation_verified |-> FALSE, error |-> TRUE]
        ELSE [user_id |-> u,
              isolation_verified |-> isolation_score = 4,
              isolation_score |-> <<isolation_score, 4>>,
              checks |-> [ brain_user_id_match      |-> brain_user_match,
                           private_directory_exists |-> has_private_directory,
                           private_brain_exists     |-> has_private_brain,
                           correct_permissions      |-> correct_permissions ],
              detailed_report |-> rep]

VerifyUserResult(rep, got, u) ==
    [store |-> rep.store, brains |-> got.brains, ok |-> TRUE,
     ret |-> IsolationReport(rep.ret, got, u)]

\* DataPrivacyService.verify_user_data_isolation (lines 145-185)
VerifyUserDataIsolation(st, br, u, t, renameOk, failAt) ==
    VerifyUserResult(VerifyDataIsolation(st, u, t, renameOk, failAt),
                     ServiceGetUserBrain(br, u, t), u)

\* create_user_private_space, lines 36-49: the report made from the load
\* `got` and the store's report `rep`; isolation_report["brain_user_id_match"]
\* raises KeyError when the store's report has no such key, and every
\* exception ends in the report of lines 44-49
SpaceReport(got, rep) ==
    IF got.ok /\ rep.brain_user_id_match # "missing"
    THEN [private_space_created |-> TRUE, brain_initialized |-> TRUE,
          isolation_verified |-> rep.brain_user_id_match = "True"]
    ELSE [private_space_created |-> FALSE, error |-> TRUE]

SpaceResult(got, ver) ==
    IF got.ok
    THEN [store |-> ver.store, ok |-> TRUE, ret |-> SpaceReport(got, ver.ret)]
    ELSE [store |-> got.store, ok |-> TRUE, ret |-> [private_space_created |-> FALSE, error |-> TRUE]]

\* verify_data_isolation as line 34 calls it, after the load of line 31
SpaceVerified(got, u, t, renameOk, failAt) ==
    SpaceResult(got, VerifyDataIsolation(got.store, u, t, renameOk, failAt))

\* DataPrivacyService.create_user_private_space (lines 27-50)
CreateUserPrivateSpace(st, u, t, renameOk, failAt) ==
    SpaceVerified(GetUserBrain(st, u, t, renameOk, failAt), u, t, renameOk, failAt)

\* save_user_brain(user_id, brain) with the document `got` a load returned
SaveLoaded(got, u, t, failAt) ==
    IF got.ok
    THEN [store |-> SaveUserBrain(got.store, u, got.ret, t, failAt).store,
          ok |-> failAt = "none", ret |-> got.ret]
    ELSE [store |-> got.store, ok |-> FALSE, ret |-> ParseError]

\* save_user_brain(user_id, get_user_brain(user_id))
SaveOfLoad(st, u, t, renameOk, failAt) ==
    SaveLoaded(GetUserBrain(st, u, t, renameOk, "none"), u, t, failAt)

\* DataPrivacyService.delete_all_user_data (lines 187-216)
DeleteAllUserData(st, u, rm) ==
    LET c == CleanupUserData(st, u, rm)
    IN  [store |-> c.store, ok |-> TRUE,
         ret |-> [all_data_deleted |-> c.ret, gdpr_compliant |-> TRUE]]

(* --------------------- the store under sequential calls --------------- *)

\* the documents a caller hands to a save: one per user id it may carry
CallerDocs == {SubmittedDoc(1, uid) : uid \in Users}

ServiceCallerDocs ==
    {[NewServiceBrain(uid, 0) EXCEPT !.achievements = <<[achievement |-> 1, date |-> 0]>>] :
        uid \in Users}

\* what a habit request carries: a per-habit row (habit_name) or a day's
\* figures
HabitInputs == {HabitInput(1), [HabitInput(2) EXCEPT !.habit_name = 1]}

DailyLog == [date |-> 1, mood_rating |-> 5]

\* a call: the operation, the user it addresses, what the caller hands
\* over (doc, h) and what the medium refuses during it (renameOk, failAt, rm)
Call(op, u) ==
    [op |-> op, user |-> u, doc |-> ParseError, h |-> HabitInput(1),
     renameOk |-> TRUE, failAt |-> "none", rm |-> "removed"]

OfStore(r, br) == [store |-> r.store, brains |-> br, ok |-> r.ok, ret |-> r.ret]

OfService(r, st) == [store |-> st, brains |-> r.brains, ok |-> r.ok, ret |-> r.ret]

OfErase(r, br) ==
    [store |-> r.store, brains |-> br, ok |-> r.ret.all_data_deleted, ret |-> r.ret]

\* what call c does to the two stores, and what it returns
Outcome(c, st, br, t) ==
    CASE c.op = "load" ->
            OfStore(GetUserBrain(st, c.user, t, c.renameOk, c.failAt), br)
      [] c.op = "save" ->
            [store |-> SaveUserBrain(st, c.user, c.doc, t, c.failAt).store, brains |-> br,
             ok |-> c.failAt = "none", ret |-> TRUE]
      [] c.op = "add_daily_log" -> OfStore(AddUserDailyLog(st, c.user, DailyLog), br)
      [] c.op = "add_habit_log" -> OfStore(AddUserHabitLog(st, c.user, c.h), br)
      [] c.op = "analytics" -> OfStore(GetUserAnalyticsData(st, c.user), br)
      [] c.op = "verify" ->
            OfStore(VerifyDataIsolation(st, c.user, t, c.renameOk, c.failAt), br)
      [] c.op = "verify_user" ->
            VerifyUserDataIsolation(st, br, c.user, t, c.renameOk, c.failAt)
      [] c.op = "provision" ->
            OfStore(CreateUserPrivateSpace(st, c.user, t, c.renameOk, c.failAt), br)
      [] c.op = "ensure" ->
            [store |-> GetUserDataDir(st, c.user), brains |-> br, ok |-> TRUE, ret |-> TRUE]
      [] c.op = "save_of_load" ->
            OfStore(SaveOfLoad(st, c.user, t, c.renameOk, c.failAt), br)
      [] c.op = "erase" -> OfErase(DeleteAllUserData(st, c.user, c.rm), br)
      [] c.op = "service_load" -> OfService(ServiceGetUserBrain(br, c.user, t), st)
      [] c.op = "service_save" ->
            [store |-> st, brains |-> ServiceSaveBrain(br, c.user, c.doc, t),
             ok |-> TRUE, ret |-> TRUE]
      [] c.op = "habit" -> OfService(UpdateBrainWithHabit(br, c.user, c.h, t), st)
      [] c.op = "conversation" ->
            OfService(UpdateBrainWithConversation(br, c.user, 1, 1, t), st)

\* the calls a caller can make for user u
Calls(u) ==
    {[Call(op, u) EXCEPT !.renameOk = rn, !.failAt = f] :
        op \in {"load", "verify", "verify_user", "provision", "save_of_load"},
        rn \in BOOLEAN, f \in FailPoints}
    \cup {[Call("save", u) EXCEPT !.doc = d, !.failAt = f] : d \in CallerDocs, f \in FailPoints}
    \cup {[Call("service_save", u) EXCEPT !.doc = d] : d \in ServiceCallerDocs}
    \cup {[Call(op, u) EXCEPT !.h = h] : op \in {"add_habit_log", "habit"}, h \in HabitInputs}
    \cup {[Call("erase", u) EXCEPT !.rm = rm] : rm \in RmOutcomes}
    \cup {Call(op, u) :
            op \in {"ensure", "add_daily_log", "analytics", "service_load", "conversation"}}

\* a scenario with no limit on its calls
Unlimited == 0 - 1

\* nothing is stored for user u: no directory, or an empty one
NoData(st, u) == DOMAIN FilesOf(st, u) = {}

\* what is remembered of the call's place in the run: a provision is
\* "first" when nothing was stored for the user, and a call is
\* "after_first" when the call before it was such a provision for its user
Place(op, u) ==
    IF op = "provision"
    THEN (IF NoData(store, u) THEN "first" ELSE "any")
    ELSE IF last.op = "provision" /\ last.place = "first" /\ last.user = u
    THEN "after_first"
    ELSE "any"

\* the call's return (or raise) is recorded, and the call counted
Done(op, u, ok, ret) ==
    /\ budget # 0
    /\ budget' = IF budget = Unlimited THEN Unlimited ELSE budget - 1
    /\ last' = [op |-> op, user |-> u, ok |-> ok, ret |-> ret, place |-> Place(op, u)]

Commit(c, r) ==
    /\ store' = r.store
    /\ brains' = r.brains
    /\ Done(c.op, c.user, r.ok, r.ret)
    /\ UNCHANGED <<now, procs>>

Perform(c) == Commit(c, Outcome(c, store, brains, now))

Rows(st, u) ==
    IF Exists(FilesOf(st, u), DbName)
    THEN Len(FilesOf(st, u)[DbName].daily_logs) + Len(FilesOf(st, u)[DbName].habit_tracking)
    ELSE 0

\* the user's service document, when there is one that parses
ServiceDoc(br, u) ==
    IF Exists(br, BrainPath(u)) THEN JsonLoad(br[BrainPath(u)]) ELSE ParseError

Load(u)        == \E c \in Calls(u) : c.op = "load" /\ Perform(c)

Save(u)        == \E c \in Calls(u) : c.op = "save" /\ Perform(c)

DailyLogAdd(u) == \E c \in Calls(u) : c.op = "add_daily_log" /\ Rows(store, u) < MaxRows /\ Perform(c)

HabitLogAdd(u) == \E c \in Calls(u) : c.op = "add_habit_log" /\ Rows(store, u) < MaxRows /\ Perform(c)

Analytics(u)   == \E c \in Calls(u) : c.op = "analytics" /\ Perform(c)

Verify(u)      == \E c \in Calls(u) : c.op = "verify" /\ Perform(c)

VerifyUser(u)  == \E c \in Calls(u) : c.op = "verify_user" /\ Perform(c)

Provision(u)   == \E c \in Calls(u) : c.op = "provision" /\ Perform(c)

Ensure(u)      == \E c \in Calls(u) : c.op = "ensure" /\ Perform(c)

SaveLoad(u)    == \E c \in Calls(u) : c.op = "save_of_load" /\ Perform(c)

Erase(u)       == \E c \in Calls(u) : c.op = "erase" /\ Perform(c)

ServiceLoad(u) == \E c \in Calls(u) : c.op = "service_load" /\ Perform(c)

ServiceSave(u) == \E c \in Calls(u) : c.op = "service_save" /\ Perform(c)

\* entries the user's service document holds under key k
Held(br, u, k) ==
    IF ServiceDoc(br, u) = ParseError THEN 0 ELSE Len(ServiceDoc(br, u)[k])

Habit(u) ==
    \E c \in Calls(u) :
        c.op = "habit" /\ Held(brains, u, "learning_history") < MaxRows /\ Perform(c)

Conversation(u) ==
    \E c \in Calls(u) :
        c.op = "conversation" /\ Held(brains, u, "conversation_context") < MaxRows /\ Perform(c)

\* the environment: brain.json is replaced with bytes that do not parse, or
\* with a document that carries another user's id
Corrupt(u) ==
    /\ store[UserDirKey(u)].exists
    /\ Exists(FilesOf(store, u), BrainName)
    /\ \E bad \in {<<Junk>>} \cup {JsonDump(NewPrivateBrain(v, 0)) : v \in Users \ {u}} :
          store' = WithFiles(store, u, (BrainName :> bad) @@ FilesOf(store, u))
    /\ Done("corrupt", u, TRUE, TRUE)
    /\ UNCHANGED <<now, brains, procs>>

\* the clock moves on
Tick ==
    /\ now < MaxTime
    /\ now' = now + 1
    /\ last' = [op |-> "tick", user |-> 0, ok |-> TRUE, ret |-> TRUE, place |-> "any"]
    /\ UNCHANGED <<store, brains, procs, budget>>

Init ==
    /\ now = 0
    /\ store = [u \in Users |-> NoDir]
    /\ brains = <<>>
    /\ procs = [w \in Workers |-> IdleProc]
    /\ last = NoOp
    /\ budget = Unlimited

Next ==
    \/ Load(TheUser)
    \/ Save(TheUser)
    \/ DailyLogAdd(TheUser)
    \/ HabitLogAdd(TheUser)
    \/ Analytics(TheUser)
    \/ Verify(TheUser)
    \/ Provision(TheUser)
    \/ SaveLoad(TheUser)
    \/ Erase(TheUser)
    \/ Corrupt(TheUser)
    \/ Tick

\* one tenant of PrivateDataStore, called by one caller at a time
Spec == Init /\ [][Next]_vars

NextProvision ==
    \/ Ensure(TheUser)
    \/ Provision(TheUser)
    \/ Load(TheUser)
    \/ Save(TheUser)
    \/ DailyLogAdd(TheUser)
    \/ HabitLogAdd(TheUser)
    \/ Erase(TheUser)
    \/ Tick

\* one tenant that only the store's own calls write to
SpecProvision == Init /\ [][NextProvision]_vars

NextVerify ==
    \/ VerifyUser(TheUser)
    \/ Load(TheUser)
    \/ ServiceSave(TheUser)
    \/ DailyLogAdd(TheUser)
    \/ Erase(TheUser)
    \/ Corrupt(TheUser)

\* one tenant of DataPrivacyService under verification
SpecVerify == Init /\ [][NextVerify]_vars

NextService ==
    \/ ServiceLoad(TheUser)
    \/ ServiceSave(TheUser)
    \/ Habit(TheUser)
    \/ Conversation(TheUser)
    \/ VerifyUser(TheUser)
    \/ Erase(TheUser)

\* one tenant of PersonalBrainService and DataPrivacyService, called by one
\* caller at a time
SpecService == Init /\ [][NextService]_vars

InitIsolation ==
    /\ now = 0
    /\ store = [u \in Users |-> NoDir]
    /\ brains = <<>>
    /\ procs = [w \in Workers |-> IdleProc]
    /\ last = NoOp
    /\ budget = MaxCalls

NextIsolation ==
    \E u \in Users :
        \/ Load(u)
        \/ Save(u)
        \/ DailyLogAdd(u)
        \/ HabitLogAdd(u)
        \/ Analytics(u)
        \/ Verify(u)
        \/ VerifyUser(u)
        \/ Erase(u)
        \/ ServiceLoad(u)
        \/ ServiceSave(u)
        \/ Habit(u)
        \/ Conversation(u)
        \/ Corrupt(u)

\* every scenario of MaxCalls calls to the two stores, in any order and
\* for any of the users
SpecIsolation == InitIsolation /\ [][NextIsolation]_vars

(* ------------------------------- claims ------------------------------- *)

\* the documents the callers have handed to save_user_brain so far
SubmittedSoFar == {procs[w].doc : w \in {v \in Workers : procs[v].op = "save"}}

\* C1: at every point of every interleaving of concurrent save_user_brain
\* calls for one user, brain.json holds exactly one of the submitted
\* documents or the earlier document, never a mix and never a part.
C1_NoTornWrite ==
    LET files == FilesOf(store, TheUser)
    IN  /\ Exists(files, BrainName)
        /\ JsonLoad(files[BrainName]) \in SubmittedSoFar \cup {EarlierDoc}

\* C2: a reader that loads the brain document while a mutation helper of
\* the same user is saving it gets the complete old or the complete new
\* document: its get_user_brain never fails on an empty or partly written
\* file.
C2_ReaderSeesWholeDocument ==
    \A w \in Workers :
        procs[w].op = "read" /\ procs[w].pc \in {"done", "failed"}
            => procs[w].pc = "done" /\ procs[w].doc # ParseError

HasWorkersChange(brain, w) ==
    IF procs[w].op = "habit"
    THEN /\ HasDate(brain.habit_memory, HabitInput(w).date)
         /\ \E i \in 1..Len(brain.learning_history) :
                brain.learning_history[i].data = HabitInput(w)
    ELSE \E i \in 1..Len(brain.conversation_context) :
                brain.conversation_context[i].user = w

\* C3: when the mutation helpers running concurrently for one user have
\* all completed, the persisted document holds the change of each of them.
C3_NoLostUpdate ==
    LET ws == {w \in Workers : procs[w].op \in {"habit", "conversation"}}
    IN  (ws = Workers /\ \A w \in ws : procs[w].pc = "done")
            => LET brain == JsonLoad(brains[BrainPath(TheUser)])
               IN  brain # ParseError /\ \A w \in ws : HasWorkersChange(brain, w)

\* user b's data: the private directory and the service document
WithoutStore(st, b) == [st EXCEPT ![UserDirKey(b)] = NoDir]

WithoutBrain(br, b) == Unlink(br, BrainPath(b))

BrainFile(br, b) == IF Exists(br, BrainPath(b)) THEN <<br[BrainPath(b)]>> ELSE <<>>

\* outcome r of a call left b's data as they were in (st, br), and is the
\* outcome w the same call has when b has no data at all
Isolated(r, w, st, br, b) ==
    /\ r.store[UserDirKey(b)] = st[UserDirKey(b)]
    /\ BrainFile(r.brains, b) = BrainFile(br, b)
    /\ r.ok = w.ok
    /\ r.ret = w.ret

\* C4: for users A # B, whatever the two stores hold, no call addressed to
\* A reads, changes, creates or deletes anything of B: B's directory and
\* B's service document are the same after the call, and what the call
\* returns is what it returns when B has no data.
C4_Isolation ==
    \A a \in Users : \A b \in Users \ {a} : \A c \in Calls(a) :
        Isolated(Outcome(c, store, brains, now),
                 Outcome(c, WithoutStore(store, b), WithoutBrain(brains, b), now),
                 store, brains, b)

\* a call for one user has just run while the other user has a private
\* directory and a service document
C4_Witness ==
    \E a \in Users : \E b \in Users \ {a} :
        /\ last.user = a
        /\ last.op \in {"load", "save", "verify", "verify_user", "erase", "habit"}
        /\ store[UserDirKey(b)].exists
        /\ Exists(brains, BrainPath(b))

\* brain.json of user u holds something get_user_brain rejects
Invalid(st, u) ==
    /\ Exists(FilesOf(st, u), BrainName)
    /\ ~ValidFor(FilesOf(st, u)[BrainName], u)

\* the content is kept under a quarantine name
Quarantined(files, content) ==
    \E n \in BackupNames \cap DOMAIN files : files[n] = content

FreshFor(doc, u, t) == doc = NewPrivateBrain(u, t)

\* C5: a load that finds an unparseable or mismatched brain.json returns a
\* freshly defaulted document stamped with the requested user id, and the
\* invalid content is afterwards still in the directory under a quarantine
\* name, also when the quarantine rename is refused.
C5_InvalidContentKept ==
    [][(last'.op = "load" /\ last'.ok /\ Invalid(store, last'.user))
          => /\ FreshFor(last'.ret, last'.user, now)
             /\ Quarantined(FilesOf(store', last'.user),
                            FilesOf(store, last'.user)[BrainName])]_vars

\* C6: the verification that follows a successful erase of the same user
\* reports directory_exists = false.
C6_VerifyAfterErase ==
    [][(last.op = "erase" /\ last.ok /\ last'.op = "verify" /\ last'.ok
            /\ last'.user = last.user)
          => ~last'.ret.directory_exists]_vars

\* a document as a first load creates it: every collection empty
BrandNew(doc) ==
    \A k \in {"learning_history", "personality_insights", "behavior_patterns", "preferences",
              "goals_progress", "habit_memory", "conversation_context", "achievements",
              "challenges", "growth_areas"} :
        doc[k] = <<>>

\* C7: the service load that follows a successful erase of the same user
\* returns a brand-new empty document, whatever ran before the erase.
C7_LoadAfterErase ==
    [][(last.op = "erase" /\ last.ok /\ last'.op = "service_load" /\ last'.ok
            /\ last'.user = last.user)
          => BrandNew(last'.ret)]_vars

\* C8: a verification creates, changes, renames and deletes nothing: the
\* private directories and the service documents are the same after it.
C8_VerifyReadOnly ==
    [][last'.op \in {"verify", "verify_user"} => store' = store /\ brains' = brains]_vars

\* brain.json of user u, if any
BrainJson(st, u) ==
    IF Exists(FilesOf(st, u), BrainName) THEN <<FilesOf(st, u)[BrainName]>> ELSE <<>>

\* C9: a save_user_brain that fails, at whichever step, leaves brain.json
\* as it was before the call and leaves no brain.tmp.
C9_FailedSaveChangesNothing ==
    [][(last'.op = "save" /\ ~last'.ok)
          => /\ BrainJson(store', last'.user) = BrainJson(store, last'.user)
             /\ ~Exists(FilesOf(store', last'.user), TmpName)]_vars

\* the user id in what is persisted for u by the store the call belongs to
PersistedUserId(op, u) ==
    IF op = "save"
    THEN JsonLoad(FilesOf(store, u)[BrainName]).user_id
    ELSE JsonLoad(brains[BrainPath(u)]).user_id

\* C10: after a save through save_user_brain or _save_brain, whatever
\* user_id the submitted document carried, the persisted document's
\* user_id is the owner's.
C10_PersistedUserIdIsOwner ==
    (last.op \in {"save", "service_save"} /\ last.ok)
        => PersistedUserId(last.op, last.user) = last.user

\* C11: a load, by either store's get_user_brain, never returns a document
\* whose user_id differs from the requested one, whatever the user's
\* document file holds.
C11_LoadedUserIdIsRequested ==
    (last.op \in {"load", "service_load"} /\ last.ok) => last.ret.user_id = last.user

\* the collections of a brain document
Collections ==
    {"learning_history", "behavior_patterns", "habit_memory", "conversation_context",
     "goals_progress", "achievements", "challenges", "growth_areas"}

\* C12: for a user with nothing stored, the load that comes right after
\* create_user_private_space returns a document with the user's id and
\* with every collection empty.
C12_LoadAfterProvision ==
    (last.op = "load" /\ last.place = "after_first" /\ last.ok)
        => /\ last.ret.user_id = last.user
           /\ \A k \in Collections : last.ret[k] = <<>>

\* a load has returned right after the provision of a user with nothing
\* stored
C12_Witness == last.op = "load" /\ last.place = "after_first" /\ last.ok

\* user_data.db of user u, if any
DbFile(st, u) ==
    IF Exists(FilesOf(st, u), DbName) THEN <<FilesOf(st, u)[DbName]>> ELSE <<>>

\* from st to st2 user u keeps the directory, the brain document and the
\* record collection st holds, and gets no file but a brain.json
KeptUnit(st, st2, u) ==
    /\ st2[UserDirKey(u)].exists
    /\ DOMAIN FilesOf(st, u) \subseteq DOMAIN FilesOf(st2, u)
    /\ DOMAIN FilesOf(st2, u) \ DOMAIN FilesOf(st, u) \subseteq {BrainName}
    /\ Exists(FilesOf(st, u), BrainName) => BrainJson(st2, u) = BrainJson(st, u)
    /\ DbFile(st2, u) = DbFile(st, u)

\* C13: _get_user_data_dir or create_user_private_space called again for a
\* user whose directory exists, in any state the store's own calls have
\* led to, leaves one directory for the user, with the brain document and
\* the record collection as they were.
C13_SecondProvisionKeepsData ==
    [][(last'.op \in {"ensure", "provision"} /\ store[UserDirKey(last'.user)].exists)
          => KeptUnit(store, store', last'.user)]_vars

\* a provision has run for a user whose brain document holds what a save
\* wrote, and whose record collection holds a row
C13_Witness ==
    /\ last.op = "provision"
    /\ last.place = "any"
    /\ Exists(FilesOf(store, last.user), BrainName)
    /\ JsonLoad(FilesOf(store, last.user)[BrainName]).achievements # <<>>
    /\ Rows(store, last.user) > 0

\* documents a and b agree in every field but last_updated
SameButLastUpdated(a, b) ==
    /\ a # ParseError
    /\ b # ParseError
    /\ [a EXCEPT !.last_updated = 0] = [b EXCEPT !.last_updated = 0]

\* the document brain.json of user u holds
Persisted(st, u) ==
    IF Exists(FilesOf(st, u), BrainName) THEN JsonLoad(FilesOf(st, u)[BrainName]) ELSE ParseError

\* C14: save_user_brain(user_id, get_user_brain(user_id)), whatever
\* brain.json held, leaves a persisted document that is the one the load
\* returned, and the one persisted before when that was valid, in every
\* field but last_updated.
C14_SaveOfLoadKeepsContent ==
    [][last'.op = "save_of_load"
          => /\ SameButLastUpdated(Persisted(store', last'.user), last'.ret)
             /\ (Exists(FilesOf(store, last'.user), BrainName) /\ ~Invalid(store, last'.user))
                    => SameButLastUpdated(Persisted(store', last'.user),
                                          Persisted(store, last'.user))]_vars

\* the save of a loaded document has returned, at a later time than the
\* document's creation, for a document that holds an achievement
C14_Witness ==
    /\ last.op = "save_of_load"
    /\ last.ok
    /\ Persisted(store, last.user).achievements # <<>>
    /\ Persisted(store, last.user).last_updated # Persisted(store, last.user).created_at

\* C15: when delete_all_user_data has returned, either the user's directory
\* with everything in it is gone and the report says all_data_deleted, or
\* nothing of the user was removed and the report says neither
\* all_data_deleted nor gdpr_compliant.
C15_EraseAllOrNothing ==
    [][last'.op = "erase"
          => \/ /\ last'.ret.all_data_deleted
                /\ store'[UserDirKey(last'.user)] = NoDir
             \/ /\ ~last'.ret.all_data_deleted
                /\ ~last'.ret.gdpr_compliant
                /\ FilesOf(store', last'.user) = FilesOf(store, last'.user)]_vars

\* C16: cleanup_user_data, whose answer delete_all_user_data reports as
\* all_data_deleted, answers False when the user had no directory before
\* the call, and True only when a directory that existed was removed.
C16_DestroyReportsWhatExisted ==
    [][last'.op = "erase"
          => /\ ~store[UserDirKey(last'.user)].exists => ~last'.ret.all_data_deleted
             /\ last'.ret.all_data_deleted
                    => /\ store[UserDirKey(last'.user)].exists
                       /\ store'[UserDirKey(last'.user)] = NoDir]_vars

\* the report is one verify_user_data_isolation returned without an error
Reported(r) == "error" \notin DOMAIN r

\* the checks of the report that are true
Passing(r) == {k \in DOMAIN r.checks : r.checks[k]}

\* C17: in every report verify_user_data_isolation returns without an
\* error, isolation_score is the number of true checks out of the number
\* of checks, and isolation_verified is true exactly when every check is.
C17_ScoreCountsChecks ==
    (last.op = "verify_user" /\ Reported(last.ret))
        => /\ last.ret.isolation_score
                  = <<Cardinality(Passing(last.ret)), Cardinality(DOMAIN last.ret.checks)>>
           /\ last.ret.isolation_verified <=> Passing(last.ret) = DOMAIN last.ret.checks

\* a verification has returned a report in which some checks pass and
\* some do not
C17_Witness ==
    /\ last.op = "verify_user"
    /\ Reported(last.ret)
    /\ Passing(last.ret) # {}
    /\ Passing(last.ret) # DOMAIN last.ret.checks

\* the directory of user u exists with owner-only mode
OwnerOnlyDir(st, u) == st[UserDirKey(u)].exists /\ st[UserDirKey(u)].mode = "700"

\* C18: when verify_user_data_isolation reports isolation_verified, then in
\* the state the call found, the user's directory exists with owner-only
\* mode, brain.json exists in it with the user's id, and user_data.db
\* exists.
C18_VerifiedMeansIsolated ==
    [][(last'.op = "verify_user" /\ Reported(last'.ret) /\ last'.ret.isolation_verified)
          => /\ OwnerOnlyDir(store, last'.user)
             /\ Exists(FilesOf(store, last'.user), BrainName)
             /\ ~Invalid(store, last'.user)
             /\ Exists(FilesOf(store, last'.user), DbName)]_vars

\* C19: in every report of create_user_private_space,
\* private_space_created implies isolation_verified, and the brain document
\* the call leaves is one the isolation check accepts.
C19_CreatedMeansVerified ==
    (last.op = "provision" /\ last.ret.private_space_created)
        => /\ last.ret.isolation_verified
           /\ Exists(FilesOf(store, last.user), BrainName)
           /\ ~Invalid(store, last.user)

\* a provision has reported success after it quarantined a rejected
\* brain.json
C19_Witness ==
    /\ last.op = "provision"
    /\ last.ret.private_space_created
    /\ BackupNames \cap DOMAIN FilesOf(store, last.user) # {}

\* C20: when create_user_private_space has reported success, the user's
\* directory, brain.json and user_data.db all exist.
C20_ProvisionCreatesAll ==
    [][(last'.op = "provision" /\ last'.ret.private_space_created)
          => /\ store'[UserDirKey(last'.user)].exists
             /\ Exists(FilesOf(store', last'.user), BrainName)
             /\ Exists(FilesOf(store', last'.user), DbName)]_vars

\* C21: every quarantined copy of a rejected brain.json stays in the user's
\* directory under its quarantine name with the content it was given,
\* across every later call except an erase: a second quarantine, also one
\* at the same clock value, does not take the first copy away.
C21_QuarantinedCopiesStay ==
    [][last'.op # "erase"
          => \A n \in BackupNames \cap DOMAIN FilesOf(store, TheUser) :
                /\ n \in DOMAIN FilesOf(store', TheUser)
                /\ FilesOf(store', TheUser)[n] = FilesOf(store, TheUser)[n]]_vars

(* ----------------------- the user's directory mode --------------------- *)

\* the environment: an existing user directory is given a wider mode (a
\* chmod by the operator, a restore from an archive, an unpacked backup)
Loosen(u) ==
    /\ store[UserDirKey(u)].exists
    /\ store[UserDirKey(u)].mode = "700"
    /\ store' = [store EXCEPT ![UserDirKey(u)].mode = "755"]
    /\ Done("loosen", u, TRUE, TRUE)
    /\ UNCHANGED <<now, brains, procs>>

NextDirectory ==
    \/ Ensure(TheUser)
    \/ Loosen(TheUser)
    \/ Load(TheUser)
    \/ Save(TheUser)
    \/ Verify(TheUser)
    \/ Erase(TheUser)
    \/ Tick

\* one tenant whose directory the environment can re-mode
SpecDirectory == Init /\ [][NextDirectory]_vars

\* C22: when _get_user_data_dir returns, the user's directory exists with
\* mode 700, whether it was absent before the call or was already there
\* with another mode.
C22_DirectoryOwnerOnlyOnReturn ==
    [][last'.op = "ensure" /\ last'.ok => OwnerOnlyDir(store', last'.user)]_vars

(* ------------------------ one chat, call by call ----------------------- *)

\* the number of the call about to be made in a scenario of MaxExchanges
\* calls; the caller uses it as the message it sends and as the day it logs
CallIndex == MaxExchanges - budget + 1

\* main_enhanced.py line 670: the chat endpoint hands the exchange to
\* update_brain_with_conversation
Exchange(u) ==
    /\ budget > 0
    /\ Commit(Call("conversation", u),
              OfService(UpdateBrainWithConversation(brains, u, CallIndex, CallIndex, now),
                        store))

\* main_enhanced.py line 356: a day's habits, logged between two exchanges
HabitDay(u) ==
    /\ budget > 0
    /\ Held(brains, u, "learning_history") < MaxRows
    /\ Commit(Call("habit", u),
              OfService(UpdateBrainWithHabit(brains, u,
                                             [HabitInput(1) EXCEPT !.date = CallIndex], now),
                        store))

InitConversation ==
    /\ now = 0
    /\ store = [u \in Users |-> NoDir]
    /\ brains = <<>>
    /\ procs = [w \in Workers |-> IdleProc]
    /\ last = NoOp
    /\ budget = MaxExchanges

NextConversation ==
    \/ Exchange(TheUser)
    \/ HabitDay(TheUser)

\* one user's chat from a fresh document, MaxExchanges calls long
SpecConversation == InitConversation /\ [][NextConversation]_vars

\* the numbers of the calls made so far that were exchanges: every call
\* but the habit updates, which learning_history records by their day
ExchangesMade ==
    LET lh == ServiceDoc(brains, TheUser).learning_history
    IN  (1..(MaxExchanges - budget)) \ {lh[i].data.date : i \in 1..Len(lh)}

\* C23: after any sequence of update_brain_with_conversation calls on a
\* fresh document, conversation_context holds at most 20 exchanges, and
\* after k calls exactly the last min(k, 20) of them in call order.
C23_ContextIsLastTwenty ==
    budget < MaxExchanges =>
        LET ctx == ServiceDoc(brains, TheUser).conversation_context
            k   == Cardinality(ExchangesMade)
        IN  /\ Len(ctx) <= ContextLimit
            /\ Len(ctx) = IF k < ContextLimit THEN k ELSE ContextLimit
            /\ \A i \in 1..Len(ctx) :
                  /\ ctx[i].user \in ExchangesMade
                  /\ Cardinality({c \in ExchangesMade : c <= ctx[i].user})
                        = k - Len(ctx) + i

C23_Witness ==
    /\ budget < MaxExchanges
    /\ last.op = "conversation"
    /\ Cardinality(ExchangesMade) > ContextLimit
    /\ Len(ServiceDoc(brains, TheUser).learning_history) > 0

(* ---------------------- one user's days, call by call ------------------ *)

\* the day about to be logged in a scenario of MaxHabits calls
Day == MaxHabits - budget + 1

\* schemas.HabitTrackingCreate as habit.dict() hands it over: sleep_hours
\* and exercise_minutes are Optional and None when the client leaves them out
Figures(d, sleep, exercise) ==
    [ date |-> d, habit_name |-> PyNone, sleep_hours |-> sleep, exercise_minutes |-> exercise,
      meditation_minutes |-> 0, reading_minutes |-> 0 ]

\* what the client can send on day d: a short night without exercise, a
\* long night with exercise, a form left empty, or day 1 corrected
HabitChoices(d) ==
    {Figures(d, 6, 0), Figures(d, 8, 30), Figures(d, PyNone, PyNone), Figures(1, 8, 30)}

\* main_enhanced.py line 356
HabitUpdate(u) ==
    /\ budget > 0
    /\ \E h \in HabitChoices(Day) :
          Commit(Call("habit", u), OfService(UpdateBrainWithHabit(brains, u, h, now), store))

InitHabit ==
    /\ now = 0
    /\ store = [u \in Users |-> NoDir]
    /\ brains = <<>>
    /\ procs = [w \in Workers |-> IdleProc]
    /\ last = NoOp
    /\ budget = MaxHabits

NextHabit == HabitUpdate(TheUser)

\* one user's habit log from a fresh document, MaxHabits calls long
SpecHabit == InitHabit /\ [][NextHabit]_vars

\* the habit_memory the medium holds for user u (none before the first call)
StoredHabits(br, u) ==
    IF ServiceDoc(br, u) = ParseError THEN <<>> ELSE ServiceDoc(br, u).habit_memory

\* the step is update_brain_with_habit(TheUser, h)
IsHabitCall(h) ==
    LET r == UpdateBrainWithHabit(brains, TheUser, h, now)
    IN  /\ last'.op = "habit"
        /\ brains' = r.brains
        /\ last'.ok = r.ok
        /\ last'.ret = r.ret

\* C24: after every update_brain_with_habit call, habit_memory holds
\* exactly one entry for the date supplied, with the values of that call,
\* and the entries of the other dates are what they were.
C24_OneEntryPerDate ==
    [][\A h \in HabitChoices(Day) :
          IsHabitCall(h) =>
              LET before == StoredHabits(brains, TheUser)
                  after  == StoredHabits(brains', TheUser)
              IN  /\ Cardinality({i \in 1..Len(after) : after[i].date = h.date}) = 1
                  /\ \A i \in 1..Len(after) :
                        after[i].date = h.date => after[i].snap = Snapshot(h)
                  /\ \A i \in 1..Len(before) :
                        before[i].date # h.date
                            => \E j \in 1..Len(after) : after[j] = before[i]]_vars

(* ------------------- the other mutation helpers ------------------------ *)

\* dict.get(key, default) on a dict kept as a function
GetOr(f, k, default) == IF k \in DOMAIN f THEN f[k] ELSE default

\* update_brain_with_mood, lines 91-106
MoodMutation(brain, mood, t) ==
    [brain EXCEPT
        !.learning_history = Append(@, [type |-> "mood", timestamp |-> t, data |-> mood]),
        !.behavior_patterns =
            Put(@, "emotional_patterns",
                Append(GetOr(@, "emotional_patterns", <<>>),
                       [date |-> t, stress |-> mood.stress_level,
                        happiness |-> mood.happiness_level, energy |-> mood.energy_level]))]

\* line 128 raises TypeError on a None: None / int, max(None, 1)
ProductivityRaises(p) == p.tasks_completed = PyNone \/ p.tasks_planned = PyNone

\* update_brain_with_productivity, lines 115-130; completion_rate is kept
\* as the pair <<tasks_completed, max(tasks_planned, 1)>> it is the quotient of
ProductivityMutation(brain, p, t) ==
    [brain EXCEPT
        !.learning_history = Append(@, [type |-> "productivity", timestamp |-> t, data |-> p]),
        !.behavior_patterns =
            Put(@, "productivity_patterns",
                Append(GetOr(@, "productivity_patterns", <<>>),
                       [date |-> t, tasks_completed |-> p.tasks_completed,
                        completion_rate |->
                            <<p.tasks_completed, IF p.tasks_planned > 1 THEN p.tasks_planned ELSE 1>>,
                        focus_time |-> p.focus_time_minutes]))]

\* set_user_goal, lines 262-267
GoalMutation(brain, goal, target, t) ==
    [brain EXCEPT !.goals_progress =
        Put(@, goal, [target |-> target, set_date |-> t, status |-> "active", progress |-> 0])]

\* add_achievement, lines 276-279
AchievementMutation(brain, achievement, t) ==
    [brain EXCEPT !.achievements = Append(@, [achievement |-> achievement, date |-> t])]

\* identify_challenge, lines 288-292
ChallengeMutation(brain, challenge, t) ==
    [brain EXCEPT !.challenges =
        Append(@, [challenge |-> challenge, identified_date |-> t, status |-> "active"])]

\* a helper's frame: get_user_brain, the change to the loaded dict (which
\* may raise), _save_brain, return brain
Helped(got, u, raises, changed, t) ==
    IF ~got.ok \/ raises
    THEN [brains |-> got.brains, ok |-> FALSE, ret |-> ParseError]
    ELSE [brains |-> ServiceSaveBrain(got.brains, u, changed, t), ok |-> TRUE,
          ret |-> Touch(changed, t)]

\* update_brain_with_mood (lines 87-109)
UpdateBrainWithMood(br, u, mood, t) ==
    Helped(ServiceGetUserBrain(br, u, t), u, FALSE,
           MoodMutation(ServiceGetUserBrain(br, u, t).ret, mood, t), t)

\* update_brain_with_productivity (lines 111-133)
UpdateBrainWithProductivity(br, u, p, t) ==
    Helped(ServiceGetUserBrain(br, u, t), u, ProductivityRaises(p),
           ProductivityMutation(ServiceGetUserBrain(br, u, t).ret, p, t), t)

\* set_user_goal (lines 258-270)
SetUserGoal(br, u, goal, target, t) ==
    Helped(ServiceGetUserBrain(br, u, t), u, FALSE,
           GoalMutation(ServiceGetUserBrain(br, u, t).ret, goal, target, t), t)

\* add_achievement (lines 272-282)
AddAchievement(br, u, achievement, t) ==
    Helped(ServiceGetUserBrain(br, u, t), u, FALSE,
           AchievementMutation(ServiceGetUserBrain(br, u, t).ret, achievement, t), t)

\* identify_challenge (lines 284-295)
IdentifyChallenge(br, u, challenge, t) ==
    Helped(ServiceGetUserBrain(br, u, t), u, FALSE,
           ChallengeMutation(ServiceGetUserBrain(br, u, t).ret, challenge, t), t)

\* the number of the call about to be made in a scenario of MaxHelpers calls
HelperIndex == MaxHelpers - budget + 1

\* schemas.MoodTrackingCreate: every level is required
MoodInput == [stress_level |-> 3, happiness_level |-> 7, energy_level |-> 5]

\* schemas.ProductivityLogCreate: the counts are integers, 0 when left out
ProductivityInputs ==
    {[tasks_completed |-> 1, tasks_planned |-> 2, focus_time_minutes |-> 30],
     [tasks_completed |-> 0, tasks_planned |-> 0, focus_time_minutes |-> 0]}

HelperHabit(u) ==
    /\ budget > 0
    /\ \E h \in HabitChoices(HelperIndex) :
          Commit(Call("habit", u), OfService(UpdateBrainWithHabit(brains, u, h, now), store))

HelperMood(u) ==
    /\ budget > 0
    /\ Commit(Call("mood", u), OfService(UpdateBrainWithMood(brains, u, MoodInput, now), store))

HelperProductivity(u) ==
    /\ budget > 0
    /\ \E p \in ProductivityInputs :
          Commit(Call("productivity", u),
                 OfService(UpdateBrainWithProductivity(brains, u, p, now), store))

HelperConversation(u) ==
    /\ budget > 0
    /\ Commit(Call("conversation", u),
              OfService(UpdateBrainWithConversation(brains, u, HelperIndex, HelperIndex, now),
                        store))

HelperGoal(u) ==
    /\ budget > 0
    /\ Commit(Call("goal", u),
              OfService(SetUserGoal(brains, u, "goal", HelperIndex, now), store))

HelperAchievement(u) ==
    /\ budget > 0
    /\ Commit(Call("achievement", u),
              OfService(AddAchievement(brains, u, HelperIndex, now), store))

HelperChallenge(u) ==
    /\ budget > 0
    /\ Commit(Call("challenge", u),
              OfService(IdentifyChallenge(brains, u, HelperIndex, now), store))

InitHelpers ==
    /\ now = 0
    /\ store = [u \in Users |-> NoDir]
    /\ brains = <<>>
    /\ procs = [w \in Workers |-> IdleProc]
    /\ last = NoOp
    /\ budget = MaxHelpers

NextHelpers ==
    \/ HelperHabit(TheUser)
    \/ HelperMood(TheUser)
    \/ HelperProductivity(TheUser)
    \/ HelperConversation(TheUser)
    \/ HelperGoal(TheUser)
    \/ HelperAchievement(TheUser)
    \/ HelperChallenge(TheUser)
    \/ Tick

\* one user's document under every mutation helper, MaxHelpers calls long
SpecHelpers == InitHelpers /\ [][NextHelpers]_vars

\* the learning_history the medium holds for user u
StoredHistory(br, u) ==
    IF ServiceDoc(br, u) = ParseError THEN <<>> ELSE ServiceDoc(br, u).learning_history

\* C25: learning_history is append-only across the mutation helpers: the
\* history before a call is a prefix of the history after it, and a
\* habit, mood or productivity update appends exactly one event of its type.
C25_HistoryAppendOnly ==
    [][last'.op \in {"habit", "mood", "productivity", "conversation", "goal",
                     "achievement", "challenge"}
          => LET before == StoredHistory(brains, TheUser)
                 after  == StoredHistory(brains', TheUser)
             IN  /\ Len(before) <= Len(after)
                 /\ SubSeq(after, 1, Len(before)) = before
                 /\ last'.op \in {"habit", "mood", "productivity"}
                       => /\ Len(after) = Len(before) + 1
                          /\ after[Len(after)].type = last'.op]_vars

\* the behavior_patterns the medium holds for user u
StoredPatterns(br, u) ==
    IF ServiceDoc(br, u) = ParseError THEN <<>> ELSE ServiceDoc(br, u).behavior_patterns

\* the sleep_hours of the snapshot k places from the end of hm, k = 0 for
\* the last one
SleepFromEnd(hm, k) == hm[Len(hm) - k].snap.sleep_hours

RECURSIVE TotalOf(_, _)
\* the sum of one field over the stored snapshots, a missing value adding
\* nothing
TotalOf(hm, field) ==
    IF hm = <<>> THEN 0
    ELSE (IF Head(hm).snap[field] = PyNone THEN 0 ELSE Head(hm).snap[field])
         + TotalOf(Tail(hm), field)

\* C27: after every update_brain_with_habit that returns, for any number of
\* stored snapshots, 1 and 2 included, behavior_patterns holds
\* average_sleep and average_exercise, each the total over the stored
\* snapshots divided by their number.
C27_AveragesAfterEveryUpdate ==
    last.op = "habit" /\ last.ok =>
        LET hm == StoredHabits(brains, TheUser)
            bp == StoredPatterns(brains, TheUser)
        IN  /\ "average_sleep" \in DOMAIN bp
            /\ "average_exercise" \in DOMAIN bp
            /\ bp["average_sleep"] = <<TotalOf(hm, "sleep_hours"), Len(hm)>>
            /\ bp["average_exercise"] = <<TotalOf(hm, "exercise_minutes"), Len(hm)>>

(* ------------------------------ streaks -------------------------------- *)

\* the place of the latest date in rows, the first of them when it occurs
\* more than once (sorted is stable)
Latest(rows) ==
    CHOOSE i \in 1..Len(rows) :
        /\ \A j \in 1..Len(rows) : rows[j].date <= rows[i].date
        /\ \A j \in 1..(i - 1) : rows[j].date < rows[i].date

Without(rows, i) == SubSeq(rows, 1, i - 1) \o SubSeq(rows, i + 1, Len(rows))

RECURSIVE SortedByDateDesc(_)
\* sorted(habits, key=lambda h: h.date, reverse=True)
SortedByDateDesc(rows) ==
    IF rows = <<>> THEN <<>>
    ELSE <<rows[Latest(rows)]>> \o SortedByDateDesc(Without(rows, Latest(rows)))

RECURSIVE LeadingRun(_, _)
\* the for loop of one streak: count until the first row whose value is
\* None, 0 or not above 0
LeadingRun(rows, field) ==
    IF rows = <<>> THEN 0
    ELSE IF Head(rows)[field] # PyNone /\ Head(rows)[field] > 0
    THEN 1 + LeadingRun(Tail(rows), field)
    ELSE 0

\* ai_service._calculate_streaks (lines 477-511)
CalculateStreaks(habits) ==
    [ exercise   |-> LeadingRun(SortedByDateDesc(habits), "exercise_minutes"),
      meditation |-> LeadingRun(SortedByDateDesc(habits), "meditation_minutes"),
      reading    |-> LeadingRun(SortedByDateDesc(habits), "reading_minutes") ]

\* the stored snapshots as rows with their date
HabitRows(hm) ==
    [i \in 1..Len(hm) |->
        [ date |-> hm[i].date, exercise_minutes |-> hm[i].snap.exercise_minutes,
          meditation_minutes |-> hm[i].snap.meditation_minutes,
          reading_minutes |-> hm[i].snap.reading_minutes ]]

\* the keys of behavior_patterns that hold the averages and the sleep trend
AnalysisKeys == {"average_sleep", "average_exercise", "sleep_trend"}

\* C28: after a habit update that returns, the document's
\* behavior_patterns reports the exercise streak: the trailing run of
\* snapshots, latest date first, with exercise_minutes above 0.
C28_StreakInBehaviorPatterns ==
    last.op = "habit" /\ last.ok =>
        \E k \in DOMAIN StoredPatterns(brains, TheUser) \ AnalysisKeys :
            StoredPatterns(brains, TheUser)[k]
                = CalculateStreaks(HabitRows(StoredHabits(brains, TheUser))).exercise

(* -------------------- DataPrivacyService.log_user_activity ------------- *)

\* log_user_activity (lines 52-63): nothing is caught, and nothing is
\* returned; an activity_type outside the four branches falls through
LogUserActivity(st, br, u, activity_type, data, t) ==
    CASE activity_type = "daily_log" -> OfStore(AddUserDailyLog(st, u, data), br)
      [] activity_type = "habit_tracking" ->
            IF ~AddUserHabitLog(st, u, data).ok
            THEN OfStore(AddUserHabitLog(st, u, data), br)
            ELSE OfService(UpdateBrainWithHabit(br, u, data, t),
                           AddUserHabitLog(st, u, data).store)
      [] activity_type = "mood_tracking" -> OfService(UpdateBrainWithMood(br, u, data, t), st)
      [] activity_type = "productivity" ->
            OfService(UpdateBrainWithProductivity(br, u, data, t), st)
      [] OTHER -> [store |-> st, brains |-> br, ok |-> TRUE, ret |-> TRUE]

ActivityTypes == {"daily_log", "habit_tracking", "mood_tracking", "productivity", "steps"}

\* what the caller hands over with activity_type on day d; a habit row
\* names the habit and its date and has no sleep or exercise figures (dict.get
\* gives None for them), or comes with figures, or lacks habit_name
ActivityData(activity_type, d) ==
    CASE activity_type = "habit_tracking" ->
            {[Figures(d, PyNone, PyNone) EXCEPT !.habit_name = 1],
             [Figures(d, 6, 0) EXCEPT !.habit_name = 1],
             Figures(d, PyNone, PyNone)}
      [] activity_type = "mood_tracking" -> {MoodInput}
      [] activity_type = "productivity" -> ProductivityInputs
      [] OTHER -> {DailyLog}

LogActivity(u) ==
    /\ budget > 0
    /\ \E activity_type \in ActivityTypes :
         \E data \in ActivityData(activity_type, HelperIndex) :
            Commit(Call("log_" \o activity_type, u),
                   LogUserActivity(store, brains, u, activity_type, data, now))

NextActivity == LogActivity(TheUser)

\* one user's activity log, MaxHelpers calls long
SpecActivity == InitHelpers /\ [][NextActivity]_vars

\* the habit_tracking rows the medium holds for user u
StoredHabitRows(st, u) ==
    IF Exists(FilesOf(st, u), DbName) THEN FilesOf(st, u)[DbName].habit_tracking ELSE <<>>

\* C30: a log_user_activity call of type habit_tracking, whether it
\* returns or raises, adds both the habit_tracking row and the brain
\* document's habit event or neither; a call with an activity_type the
\* service does not know changes nothing that is stored.
C30_RowAndBrainTogether ==
    [][/\ last'.op = "log_habit_tracking"
          => (Len(StoredHabitRows(store', TheUser)) > Len(StoredHabitRows(store, TheUser))
              <=> Len(StoredHistory(brains', TheUser)) > Len(StoredHistory(brains, TheUser)))
       /\ last'.op = "log_steps" => store' = store /\ brains' = brains]_vars

(* ----------------------- an erase among savers ------------------------- *)

\* what the user's directory holds before the erase: a document an
\* earlier save_user_brain stored
StoredBeforeErase == Stamp(TheUser, SubmittedDoc(1, TheUser), 0)

\* get_user_brain (lines 136-154): worker w loads the document it is
\* going to save back
RaceLoad(w) ==
    /\ procs[w].pc = "idle"
    /\ store' = GetUserBrain(store, TheUser, now, TRUE, "none").store
    /\ procs' = [procs EXCEPT ![w] =
                   [IdleProc EXCEPT !.pc = "loaded", !.op = "save",
                                    !.doc = GetUserBrain(store, TheUser, now, TRUE, "none").ret]]
    /\ UNCHANGED <<now, brains, last, budget>>

\* save_user_brain (lines 156-180) of the loaded document;
\* _get_user_brain_path goes through _get_user_data_dir, whose mkdir
\* brings back a directory that is gone
RaceSave(w) ==
    /\ procs[w].pc = "loaded"
    /\ store' = SaveUserBrain(store, TheUser, procs[w].doc, now, "none").store
    /\ procs' = [procs EXCEPT ![w].pc = "done"]
    /\ UNCHANGED <<now, brains, last, budget>>

InitErase ==
    /\ now = 0
    /\ store = [u \in Users |->
                  IF u = TheUser
                  THEN [exists |-> TRUE, mode |-> "700",
                        files |-> (BrainName :> JsonDump(StoredBeforeErase))]
                  ELSE NoDir]
    /\ brains = <<>>
    /\ procs = [w \in Workers |-> IdleProc]
    /\ last = NoOp
    /\ budget = Unlimited

NextErase ==
    \/ \E w \in Workers : RaceLoad(w)
    \/ \E w \in Workers : RaceSave(w)
    \/ Erase(TheUser)
    \/ Tick

\* callers that load and save one user's document while the user's data
\* is erased
SpecErase == InitErase /\ [][NextErase]_vars

\* brain.json of user u carries what was stored before the erase
HoldsErased(st, u) ==
    /\ Exists(FilesOf(st, u), BrainName)
    /\ JsonLoad(FilesOf(st, u)[BrainName]) # ParseError
    /\ JsonLoad(FilesOf(st, u)[BrainName]).achievements = StoredBeforeErase.achievements

\* C29: once cleanup_user_data has succeeded and every caller that had
\* the document loaded at that time has finished its save, nothing that
\* was stored before the erase is on the medium.
C29_EraseIsFinal ==
    (/\ last.op = "erase"
     /\ last.ok
     /\ \A w \in Workers : procs[w].pc # "loaded")
        => ~HoldsErased(store, TheUser)

====
